---- MODULE Spec2Model ----
(***************************************************************************)
(* One run of the IPO alert job, in its two variants:                      *)
(*   "auto"   - ipo_alerts_auto.py: collect_ipos (FMP -> Finnhub -> NSE +  *)
(*              BSE scrape), save ipos.csv, evaluate today's listings;     *)
(*   "manual" - ipo_alerts.py: read ipos.csv, evaluate today's listings.   *)
(* Prices are integers; the gain band test is done by exact cross          *)
(* multiplication, which agrees with the float computation on the sampled  *)
(* prices (issue 100, ltp 107/108/130/131).                                *)
(***************************************************************************)
EXTENDS Integers, Sequences, FiniteSets, TLC

VARIABLES variant, TELEGRAM_BOT_TOKEN, TELEGRAM_CHAT_ID, FMP_API_KEY,
          FINNHUB_API_KEY, pc, calls, ipos, df, csv, writes, df_today, i,
          sym, issue, ltp, attempts, looked, notified, posts, sendResult,
          outcome, error

vars == <<variant, TELEGRAM_BOT_TOKEN, TELEGRAM_CHAT_ID, FMP_API_KEY,
          FINNHUB_API_KEY, pc, calls, ipos, df, csv, writes, df_today, i,
          sym, issue, ltp, attempts, looked, notified, posts, sendResult,
          outcome, error>>

\* ------------------------------------------------------------------ bounds
\* longest list one adapter returns / longest ipos.csv of the manual run
MaxRecords == 2

\* ------------------------------------------------------- program constants
MIN_GAIN == 8
MAX_GAIN == 30

\* ------------------------------------------------------------ value domains
\* datetime.date.today()
today == "d2"
Dates == {"d1", "d2"}
NaT == "NaT"
NoDate == "None"

\* optional values: <<>> is None / NaN, <<v>> is the value v
None == <<>>
Some(v) == <<v>>

\* prices as they arrive: absent, a JSON number, or a JSON string
NoPrice == [k |-> "none"]
NaN == [k |-> "nan"]
Num(n) == [k |-> "num", n |-> n]
Str(s) == [k |-> "str", s |-> s]

\* symbols are sequences of characters
RawSymbols == {<<>>, <<" ", "A">>}
ScrapedSymbols == {<<>>, <<"A">>}
RawPrices == {NoPrice, Num(0), Num(100), Str("0"), Str("abc")}
ApiDateStrs == {"missing", "", "d1", "d2"}
ScrapeDateTexts == {"bad", "d2"}
LtpValues == {107, 108, 130, 131}
TestLtps == {110}
OldCsv == <<[symbol |-> <<"O">>, exchange |-> "NSE", issue_price |-> Num(100),
             listing_date |-> "d1"]>>
\* ipos.csv: absent, or its rows
NoFile == [exists |-> FALSE, rows |-> <<>>]
File(rows) == [exists |-> TRUE, rows |-> rows]

SeqsUpTo(S, n) == UNION {[1..k -> S] : k \in 0..n}

\* ---------------------------------------------------------- pure functions
\* str.strip()
RECURSIVE LStrip(_)
LStrip(s) == IF s # <<>> /\ Head(s) = " " THEN LStrip(Tail(s)) ELSE s

RECURSIVE RStrip(_)
RStrip(s) == IF s # <<>> /\ s[Len(s)] = " "
             THEN RStrip(SubSeq(s, 1, Len(s) - 1)) ELSE s

Strip(s) == RStrip(LStrip(s))

\* Python truthiness of a price value, as used by `a or b`
Truthy(p) == \/ p.k = "num" /\ p.n # 0
             \/ p.k = "str" /\ p.s # ""

\* pd.to_datetime(date_str).date(): "raise" is the adapter's `continue`
ParseDate(s) == IF s \in Dates THEN s
                ELSE IF s = "" THEN NaT
                ELSE "raise"

\* items of an API payload: [date, symbol, price]
ApiItems == [date : ApiDateStrs, symbol : RawSymbols, price : RawPrices]
\* a response: the request failed (ok = FALSE), or a list of items
ApiPayloads == [ok : {FALSE}, items : {<<>>}]
               \cup [ok : {TRUE}, items : SeqsUpTo(ApiItems, MaxRecords)]

ApiRecord(item) ==
    [symbol |-> item.symbol, exchange |-> "NSE",
     issue_price |-> IF Truthy(item.price) THEN item.price ELSE NoPrice,
     listing_date |-> ParseDate(item.date)]

RECURSIVE ApiResults(_)
ApiResults(items) ==
    IF items = <<>> THEN <<>>
    ELSE IF ParseDate(Head(items).date) = "raise" THEN ApiResults(Tail(items))
    ELSE <<ApiRecord(Head(items))>> \o ApiResults(Tail(items))

fetch_fmp_ipos(payload) ==
    IF ~FMP_API_KEY \/ ~payload.ok THEN <<>> ELSE ApiResults(payload.items)

fetch_finnhub_ipos(payload) ==
    IF ~FINNHUB_API_KEY \/ ~payload.ok THEN <<>> ELSE ApiResults(payload.items)

\* rows of a scraped HTML table: short rows (too few cells) are skipped
ScrapeRows == [short : BOOLEAN, sym : ScrapedSymbols, date : ScrapeDateTexts]
ScrapePayloads == [ok : {FALSE}, items : {<<>>}]
                  \cup [ok : {TRUE}, items : SeqsUpTo(ScrapeRows, MaxRecords)]

\* try: pd.to_datetime(text).date()  except: None
ParseScrapeDate(s) == IF ParseDate(s) = "raise" THEN NoDate ELSE ParseDate(s)

RECURSIVE ScrapeResults(_, _)
ScrapeResults(rows, exch) ==
    IF rows = <<>> THEN <<>>
    ELSE IF Head(rows).short THEN ScrapeResults(Tail(rows), exch)
    ELSE <<[symbol |-> Head(rows).sym, exchange |-> exch,
            issue_price |-> NoPrice,
            listing_date |-> ParseScrapeDate(Head(rows).date)]>>
         \o ScrapeResults(Tail(rows), exch)

scrape_nse_upcoming(payload) ==
    IF ~payload.ok THEN <<>> ELSE ScrapeResults(payload.items, "NSE")

scrape_bse_public_issues(payload) ==
    IF ~payload.ok THEN <<>> ELSE ScrapeResults(payload.items, "BSE")

HasDateAny(r) == TRUE

\* df.dropna(subset=['listing_date'])
HasDate(r) == r.listing_date # NoDate /\ r.listing_date # NaT

RECURSIVE DropNa(_)
DropNa(rows) ==
    IF rows = <<>> THEN <<>>
    ELSE IF HasDate(Head(rows)) THEN <<Head(rows)>> \o DropNa(Tail(rows))
    ELSE DropNa(Tail(rows))

\* the tail of collect_ipos: DataFrame, dropna, listing_date as date
Normalize(rows) == DropNa(rows)

IsTodayOrEarlier(r) == r.listing_date \in Dates

\* df['listing_date'] == today
IsToday(r) == r.listing_date = today

RECURSIVE TodayFrom(_, _)
TodayFrom(rows, k) ==
    IF k > Len(rows) THEN <<>>
    ELSE IF IsToday(rows[k]) THEN <<k>> \o TodayFrom(rows, k + 1)
    ELSE TodayFrom(rows, k + 1)

\* positions in df of the rows of df_today, in order
TodayIdx(rows) == TodayFrom(rows, 1)

\* rows of a hand-written ipos.csv
CsvRows == [symbol : {<<" ", "A">>}, exchange : {"NSE"},
            issue_price : {NaN, Num(0), Num(100)},
            listing_date : Dates, test_ltp : {None} \cup {Some(v) : v \in TestLtps}]

CredsMissingBoth == ~TELEGRAM_BOT_TOKEN /\ ~TELEGRAM_CHAT_ID

\* `not TELEGRAM_BOT_TOKEN or not TELEGRAM_CHAT_ID`
CredsMissing == ~TELEGRAM_BOT_TOKEN \/ ~TELEGRAM_CHAT_ID

\* float(issue): the number, or "raise" for a ValueError
ToFloat(p) == IF p.k = "num" THEN Some(p.n)
              ELSE IF p.k = "str" /\ p.s = "0" THEN Some(0)
              ELSE None

InBandExclusive(l, iss) ==
    IF iss > 0
    THEN MIN_GAIN * iss < (l - iss) * 100 /\ (l - iss) * 100 < MAX_GAIN * iss
    ELSE MIN_GAIN * iss > (l - iss) * 100 /\ (l - iss) * 100 > MAX_GAIN * iss

\* MIN_GAIN <= (ltp - issue)/issue*100 <= MAX_GAIN, for issue # 0
InBand(l, iss) ==
    IF iss > 0
    THEN MIN_GAIN * iss <= (l - iss) * 100 /\ (l - iss) * 100 <= MAX_GAIN * iss
    ELSE MIN_GAIN * iss >= (l - iss) * 100 /\ (l - iss) * 100 >= MAX_GAIN * iss

HasOverrideNever(r) == FALSE

\* `'test_ltp' in row and not pd.isna(row['test_ltp'])`
HasOverride(r) == "test_ltp" \in DOMAIN r /\ r.test_ltp # None

NeedsFallbackAlways(l) == TRUE

\* `not ipos`: no source has produced a record yet
NeedsFallback(l) == l = <<>>

ShouldSaveAlways(d) == TRUE

\* `not df.empty`
ShouldSave(d) == d # <<>>

LoopExitNoBreak(r, n) == n >= 2

\* range(2) is exhausted, or `if ltp is not None: break`
LoopExit(r, n) == r # None \/ n >= 2

\* ------------------------------------------------------------------- Init
Init ==
    /\ variant \in {"auto", "manual"}
    /\ TELEGRAM_BOT_TOKEN \in BOOLEAN
    /\ TELEGRAM_CHAT_ID \in BOOLEAN
    /\ FMP_API_KEY \in (IF variant = "auto" THEN BOOLEAN ELSE {FALSE})
    /\ FINNHUB_API_KEY \in (IF variant = "auto" THEN BOOLEAN ELSE {FALSE})
    /\ pc = IF variant = "auto" THEN "fmp" ELSE "read"
    /\ calls = <<>>
    /\ ipos = <<>>
    /\ df = <<>>
    /\ csv \in (IF variant = "auto" THEN {File(OldCsv)}
                ELSE {NoFile} \cup {File(r) : r \in SeqsUpTo(CsvRows, MaxRecords)})
    /\ writes = 0
    /\ df_today = <<>>
    /\ i = 1
    /\ sym = <<>>
    /\ issue = NoPrice
    /\ ltp = None
    /\ attempts = 0
    /\ looked = {}
    /\ notified = {}
    /\ posts = 0
    /\ sendResult = "NotCalled"
    /\ outcome = "running"
    /\ error = "none"

config == <<variant, TELEGRAM_BOT_TOKEN, TELEGRAM_CHAT_ID, FMP_API_KEY,
            FINNHUB_API_KEY>>
rowLocals == <<sym, issue, ltp, attempts>>
effects == <<looked, notified, posts, sendResult>>
loopVars == <<df_today, i>>

Call(src, res) == Append(calls, [src |-> src, nonempty |-> res # <<>>])

\* --------------------------------------------------------- collect_ipos
\* if FMP_API_KEY: ipos = fetch_fmp_ipos()
TryFmp ==
    /\ pc = "fmp"
    /\ IF FMP_API_KEY
       THEN \E payload \in ApiPayloads :
                /\ ipos' = fetch_fmp_ipos(payload)
                /\ calls' = Call("fmp", ipos')
       ELSE UNCHANGED <<ipos, calls>>
    /\ pc' = "finnhub"
    /\ UNCHANGED <<config, df, csv, writes, loopVars, rowLocals, effects,
                   outcome, error>>

\* if not ipos and FINNHUB_API_KEY: ipos = fetch_finnhub_ipos()
TryFinnhub ==
    /\ pc = "finnhub"
    /\ IF NeedsFallback(ipos) /\ FINNHUB_API_KEY
       THEN \E payload \in ApiPayloads :
                /\ ipos' = fetch_finnhub_ipos(payload)
                /\ calls' = Call("finnhub", ipos')
       ELSE UNCHANGED <<ipos, calls>>
    /\ pc' = "nse"
    /\ UNCHANGED <<config, df, csv, writes, loopVars, rowLocals, effects,
                   outcome, error>>

\* if not ipos: ipos = scrape_nse_upcoming() + ...   (left operand)
TryNse ==
    /\ pc = "nse"
    /\ IF NeedsFallback(ipos)
       THEN /\ \E payload \in ScrapePayloads :
                  /\ ipos' = scrape_nse_upcoming(payload)
                  /\ calls' = Call("nse", ipos')
            /\ pc' = "bse"
       ELSE /\ UNCHANGED <<ipos, calls>>
            /\ pc' = "normalize"
    /\ UNCHANGED <<config, df, csv, writes, loopVars, rowLocals, effects,
                   outcome, error>>

\* ... + scrape_bse_public_issues()   (right operand, then the assignment)
TryBse ==
    /\ pc = "bse"
    /\ \E payload \in ScrapePayloads :
          LET res == scrape_bse_public_issues(payload) IN
          /\ ipos' = ipos \o res
          /\ calls' = Call("bse", res)
    /\ pc' = "normalize"
    /\ UNCHANGED <<config, df, csv, writes, loopVars, rowLocals, effects,
                   outcome, error>>

\* the rest of collect_ipos, then main up to the loop: normalise, save
\* ipos.csv when the frame is not empty, filter today's rows
NormalizeAndSave ==
    /\ pc = "normalize"
    /\ df' = IF ipos = <<>> THEN <<>> ELSE Normalize(ipos)
    /\ ipos' = <<>>
    /\ IF ShouldSave(df')
       THEN csv' = File(df') /\ writes' = writes + 1
       ELSE UNCHANGED <<csv, writes>>
    /\ df_today' = TodayIdx(df')
    /\ i' = 1
    /\ IF df_today' = <<>>
       THEN pc' = "done" /\ outcome' = "returned"
       ELSE pc' = "row" /\ UNCHANGED outcome
    /\ UNCHANGED <<config, calls, rowLocals, effects, error>>

\* ------------------------------------------------- ipo_alerts.py: main
\* read ipos.csv and filter today's rows
ReadCsv ==
    /\ pc = "read"
    /\ IF ~csv.exists
       THEN /\ pc' = "done" /\ outcome' = "returned"
            /\ UNCHANGED <<df, df_today>>
       ELSE /\ df' = csv.rows
            /\ df_today' = TodayIdx(df')
            /\ IF df_today' = <<>>
               THEN pc' = "done" /\ outcome' = "returned"
               ELSE pc' = "row" /\ UNCHANGED outcome
    /\ i' = 1
    /\ UNCHANGED <<config, calls, ipos, csv, writes, rowLocals, effects,
                   error>>

\* ------------------------------------------------------ the per-row loop
\* df_today row the loop is at, as a position in df
Cur == df_today[i]

\* next iteration of `for _, row in df_today.iterrows()`, or the end of main
Advance ==
    /\ i' = i + 1
    /\ IF i < Len(df_today)
       THEN pc' = "row" /\ UNCHANGED outcome
       ELSE pc' = "done" /\ outcome' = "returned"

\* an exception leaves main
Raise(e) ==
    /\ pc' = "raised"
    /\ outcome' = "raised"
    /\ error' = e
    /\ UNCHANGED i

\* what requests.post does: a status code, or an exception
PostOutcomes == {"200", "403", "raise"}

\* send_telegram(msg) for row k, then cont
send_telegram(k) ==
    /\ notified' = notified \cup {k}
    /\ IF CredsMissing
       THEN /\ sendResult' = IF variant = "auto" THEN "False" ELSE "None"
            /\ UNCHANGED posts
            /\ Advance
            /\ UNCHANGED error
       ELSE /\ posts' = posts + 1
            /\ \E r \in PostOutcomes :
                 IF r = "raise"
                 THEN Raise("RequestException") /\ UNCHANGED sendResult
                 ELSE /\ sendResult' = IF variant = "manual" THEN "None"
                                       ELSE IF r = "200" THEN "True"
                                       ELSE "False"
                      /\ Advance
                      /\ UNCHANGED error

\* ipo_alerts_auto.py: sym, exch, issue, and the test_ltp override
BeginRowAuto ==
    /\ pc = "row" /\ variant = "auto"
    /\ sym' = Strip(df[Cur].symbol)
    /\ issue' = IF df[Cur].issue_price.k \in {"none", "nan"}
                THEN NoPrice ELSE df[Cur].issue_price
    /\ attempts' = 0
    /\ IF HasOverride(df[Cur])
       THEN ltp' = df[Cur].test_ltp /\ pc' = "check"
       ELSE ltp' = None /\ pc' = "lookup"
    /\ UNCHANGED <<config, calls, ipos, df, csv, writes, loopVars, effects,
                   outcome, error>>

\* for attempt in range(2): ltp = get_ltp(sym, exch); break if found
LookupAuto ==
    /\ pc = "lookup" /\ variant = "auto"
    /\ attempts' = attempts + 1
    /\ looked' = looked \cup {Cur}
    /\ \E r \in {None} \cup {Some(v) : v \in LtpValues} :
          /\ ltp' = r
          /\ pc' = IF LoopExit(r, attempts') THEN "check" ELSE "lookup"
    /\ UNCHANGED <<config, calls, ipos, df, csv, writes, loopVars, sym, issue,
                   notified, posts, sendResult, outcome, error>>

\* the skips, the guarded gain computation and the band test
EvaluateAuto ==
    /\ pc = "check" /\ variant = "auto"
    /\ IF ltp = None \/ issue = NoPrice \/ ToFloat(issue) = None
          \/ ToFloat(issue) = Some(0)
       THEN Advance /\ UNCHANGED <<effects, error>>
       ELSE IF InBand(ltp[1], ToFloat(issue)[1])
       THEN send_telegram(Cur) /\ UNCHANGED looked
       ELSE Advance /\ UNCHANGED <<effects, error>>
    /\ UNCHANGED <<config, calls, ipos, df, csv, writes, df_today, rowLocals>>

\* ipo_alerts.py: sym, exch, issue = float(...), ltp = override or get_ltp
BeginRowManual ==
    /\ pc = "row" /\ variant = "manual"
    /\ sym' = Strip(df[Cur].symbol)
    /\ issue' = df[Cur].issue_price
    /\ IF HasOverride(df[Cur])
       THEN /\ ltp' = df[Cur].test_ltp
            /\ pc' = "check"
            /\ attempts' = 0
            /\ UNCHANGED <<looked, outcome, error>>
       ELSE /\ attempts' = 1
            /\ looked' = looked \cup {Cur}
            /\ \E r \in {None} \cup {Some(v) : v \in LtpValues} :
                  /\ ltp' = r /\ pc' = "check"
                  /\ UNCHANGED <<outcome, error>>
    /\ UNCHANGED <<config, calls, ipos, df, csv, writes, loopVars, notified,
                   posts, sendResult>>

\* get_ltp of ipo_alerts.py has no try: a yfinance failure leaves main
LookupRaisesManual ==
    /\ pc = "row" /\ variant = "manual"
    /\ ~HasOverride(df[Cur])
    /\ sym' = Strip(df[Cur].symbol)
    /\ issue' = df[Cur].issue_price
    /\ attempts' = 1
    /\ looked' = looked \cup {Cur}
    /\ Raise("YFinanceError")
    /\ UNCHANGED <<config, calls, ipos, df, csv, writes, df_today, ltp,
                   notified, posts, sendResult>>

\* ltp None: continue; else the unguarded gain computation and the band test
EvaluateManual ==
    /\ pc = "check" /\ variant = "manual"
    /\ IF ltp = None
       THEN Advance /\ UNCHANGED <<effects, error>>
       ELSE IF issue.k = "nan"
       THEN Advance /\ UNCHANGED <<effects, error>>
       ELSE IF ToFloat(issue) = Some(0)
       THEN Raise("ZeroDivisionError") /\ UNCHANGED effects
       ELSE IF InBand(ltp[1], ToFloat(issue)[1])
       THEN send_telegram(Cur) /\ UNCHANGED looked
       ELSE Advance /\ UNCHANGED <<effects, error>>
    /\ UNCHANGED <<config, calls, ipos, df, csv, writes, df_today, rowLocals>>

Next ==
    \/ TryFmp
    \/ TryFinnhub
    \/ TryNse
    \/ TryBse
    \/ NormalizeAndSave
    \/ ReadCsv
    \/ BeginRowAuto
    \/ LookupAuto
    \/ EvaluateAuto
    \/ BeginRowManual
    \/ LookupRaisesManual
    \/ EvaluateManual

Spec == Init /\ [][Next]_vars

TypeOK ==
    /\ pc \in {"fmp", "finnhub", "nse", "bse", "normalize", "read", "row",
               "lookup", "check", "done", "raised"}
    /\ outcome \in {"running", "returned", "raised"}
    /\ attempts \in 0..2

\* ------------------------------------------------------------ claim helpers
\* the loop has finished the evaluation of a row and the row's locals
\* (sym, issue, ltp) are still the ones of that row
Evaluated ==
    \/ pc \in {"row", "done"} /\ i > 1
    \/ pc = "raised" /\ error = "RequestException"

\* position in df of the row whose evaluation has just finished
LastRow == IF pc = "raised" THEN df_today[i] ELSE df_today[i - 1]

Srcs(c) == {c[k].src : k \in DOMAIN c}
NonEmptySrcs(c) == {c[k].src : k \in {j \in DOMAIN c : c[j].nonempty}}
Rank(src) == CASE src = "fmp" -> 1 [] src = "finnhub" -> 2
               [] src = "nse" -> 3 [] src = "bse" -> 4

\* C1: the sources are tried in the order FMP, Finnhub, NSE scrape, BSE
\* scrape; once FMP has returned a record no other source is invoked, and
\* once Finnhub has returned a record (FMP having returned none) no scraper
\* is invoked.
C1_FallbackOrder ==
    /\ \A j, k \in DOMAIN calls : j < k => Rank(calls[j].src) < Rank(calls[k].src)
    /\ "fmp" \in NonEmptySrcs(calls) => Srcs(calls) = {"fmp"}
    /\ "finnhub" \in NonEmptySrcs(calls) => Srcs(calls) \cap {"nse", "bse"} = {}
    /\ "fmp" \in Srcs(calls) => FMP_API_KEY
    /\ "finnhub" \in Srcs(calls) => FINNHUB_API_KEY

\* FMP was asked and returned nothing, Finnhub returned records, run over
C1_Witness ==
    /\ pc = "done"
    /\ Srcs(calls) = {"fmp", "finnhub"}
    /\ NonEmptySrcs(calls) = {"finnhub"}

\* C2: for an evaluated row with issue price > 0 and an available price
\* ltp >= 0, send_telegram was called for the row if and only if
\* MIN_GAIN <= (ltp - issue)/issue*100 <= MAX_GAIN, both ends included.
C2_NotifyIffInBand ==
    (Evaluated /\ ltp # None /\ ToFloat(issue) # None) =>
        LET l == ltp[1]
            v == ToFloat(issue)[1]
        IN  (v > 0 /\ l >= 0) =>
               (LastRow \in notified <=>
                  (MIN_GAIN * v <= (l - v) * 100 /\ (l - v) * 100 <= MAX_GAIN * v))

\* a row at exactly MIN_GAIN (issue 100, ltp 108) was notified
C2_Witness ==
    /\ Evaluated
    /\ issue = Num(100)
    /\ ltp = Some(108)
    /\ LastRow \in notified

\* C3: a row listed today with issue price 0 never makes the run raise; it
\* is skipped without a notification, in both variants.
C3_ZeroIssueNeverRaises ==
    /\ error # "ZeroDivisionError"
    /\ (Evaluated /\ ToFloat(issue) = Some(0)) => LastRow \notin notified

\* C4: an empty normalized set leaves ipos.csv as it was; the file is
\* overwritten only with a non-empty normalized set.
C4_EmptyLeavesFile ==
    variant = "auto" =>
        \/ writes = 0 /\ csv = File(OldCsv)
        \/ writes = 1 /\ df # <<>> /\ csv = File(df)

\* records were collected but all were dropped for lacking a date
C4_Witness ==
    /\ variant = "auto"
    /\ pc = "done"
    /\ NonEmptySrcs(calls) # {}
    /\ df = <<>>
    /\ csv = File(OldCsv)

\* C5: the auto-fetch run always ends in a normal completion, with every
\* row listed today evaluated.
C5_AlwaysCompletes ==
    variant = "auto" =>
        /\ outcome # "raised"
        /\ pc = "done" => i > Len(df_today) \/ df_today = <<>>

\* C6: no Price Lookup call and no Notifier call is made for a row whose
\* listing_date is not today.
C6_OnlyTodayEvaluated ==
    \A k \in looked \cup notified : df[k].listing_date = today

\* the run is over, a row was evaluated and another row was not of today
C6_Witness ==
    /\ pc = "done"
    /\ looked # {}
    /\ \E k \in DOMAIN df : df[k].listing_date # today

\* C7: a row with a test_ltp override gets that value as its price and
\* get_ltp is never called for it.
C7_OverrideNoLookup ==
    /\ \A k \in looked :
          ~("test_ltp" \in DOMAIN df[k] /\ df[k].test_ltp # None)
    /\ (pc = "check" /\ "test_ltp" \in DOMAIN df[Cur]
          /\ df[Cur].test_ltp # None) =>
             ltp = df[Cur].test_ltp /\ attempts = 0

\* a row with the override 110 reaches the gain computation
C7_Witness ==
    /\ pc = "check"
    /\ "test_ltp" \in DOMAIN df[Cur]
    /\ df[Cur].test_ltp = Some(110)
    /\ ltp = Some(110)

Collected == variant = "auto" /\ pc \notin {"fmp", "finnhub", "nse", "bse", "normalize"}

\* C9 as stated: every record of the normalized set has a calendar date
\* and a non-empty, trimmed symbol.
C9_Original ==
    Collected =>
        \A k \in DOMAIN df :
            /\ df[k].listing_date \in Dates
            /\ df[k].symbol # <<>>
            /\ Strip(df[k].symbol) = df[k].symbol

\* C9 amended: every record of the normalized set, and so every record
\* written to ipos.csv by the run, has a calendar date as listing_date.
C9_DatePresent ==
    Collected =>
        /\ \A k \in DOMAIN df : df[k].listing_date \in Dates
        /\ writes > 0 =>
              \A k \in DOMAIN csv.rows : csv.rows[k].listing_date \in Dates

\* both scrapers returned records, one record was kept and written, the
\* others were dropped for lacking a date
C9_Witness ==
    /\ Collected
    /\ NonEmptySrcs(calls) = {"nse", "bse"}
    /\ Len(df) = 1
    /\ writes = 1
    /\ csv = File(df)

\* C10: get_ltp is called at most twice for a row, the second time only
\* after the first returned None; a row whose price is still None is not
\* notified; a price found on either attempt is the one evaluated.
C10_RetryOnce ==
    variant = "auto" =>
        /\ attempts <= 2
        /\ pc = "lookup" => ltp = None /\ attempts <= 1
        /\ (pc = "check" /\ attempts < 2) => ltp # None
        /\ (Evaluated /\ ltp = None) => LastRow \notin notified

\* the second attempt found the price and the row was notified
C10_Witness ==
    /\ variant = "auto"
    /\ Evaluated
    /\ attempts = 2
    /\ ltp = Some(130)
    /\ LastRow \in notified

====
